---- MODULE Spec2Model ----
(***************************************************************************)
(* A model of the two course notebooks of phaa/ibm-fine-tuning-llms:       *)
(*   IT  - the instruction-tuning notebook (QLoRA + SFTTrainer),           *)
(*   DPO - 2-fine-tuning-PPO-DPO/3-Fine-Tuning-DPO.ipynb.                  *)
(* Texts are sequences of one-character strings, so that concatenation     *)
(* and the exact characters of the prompt templates are what is compared.  *)
(***************************************************************************)
EXTENDS Integers, Sequences, FiniteSets, TLC

VARIABLES
    \* ---- DPO notebook, first code cell (dataset preparation)
    dstage,        \* how far the dataset statements have run
    loaded,        \* the train split as load_dataset returned it
    kept,          \* the value dpo_dataset held after .filter(...)
    dpo_dataset,   \* the current value of the name dpo_dataset
    \* ---- the two notebooks, cell by cell
    pc,                  \* per notebook: the next code cell to run
    aborted,             \* per notebook: the run stopped at a failed cell
    err,                 \* per notebook: the exception of the last cell run
    bound,               \* per notebook: the names bound in the kernel
    obj,                 \* the model objects in memory
    ref,                 \* per notebook: the object each model name refers to
    peft_config,         \* per notebook: the value of peft_config
    training_arguments,  \* per notebook: the value of training_arguments
    tokenizer,           \* per notebook: the value of tokenizer
    it_dataset,          \* IT notebook: the value of dataset
    fs,                  \* the local directories and what they hold
    calls,               \* per notebook: the library entry points called, in order
    generated,           \* per notebook: the model and tokenizer pipe(prompt) ran on
    \* ---- dpo_trainer.train(), batch by batch
    tpc,                    \* where the training loop stands
    n_train,                \* the number of rows of the train dataset
    epoch,                  \* the epoch of the loop
    step,                   \* the batches drawn in this epoch
    total_batched_samples,  \* the batches drawn in all
    global_step,            \* state.global_step
    sched_steps,            \* the steps the learning-rate scheduler has taken
    last_lr                 \* the learning rate the latest optimizer step ran at

dataVars == <<dstage, loaded, kept, dpo_dataset>>

nbVars == <<pc, aborted, err, bound, obj, ref, peft_config, training_arguments,
            tokenizer, it_dataset, fs, calls, generated>>

trainVars == <<tpc, n_train, epoch, step, total_batched_samples, global_step,
               sched_steps, last_lr>>

(***************************************************************************)
(* Bounds of the model.                                                    *)
(***************************************************************************)
MaxRecords == 3
MaxTextLen == 2
MaxNotebookRecords == 1
MaxItRecords == 1
MaxTrainRecords == 10
MaxSkipped == 2

(***************************************************************************)
(* Text.                                                                   *)
(***************************************************************************)
Chars == {"a", " "}

SeqsUpTo(S, n) == UNION {[1..k -> S] : k \in 0..n}

Texts == SeqsUpTo(Chars, MaxTextLen)

\* The string literals of the notebooks, character by character.
EOS == <<"<", "/", "s", ">">>
NL == <<"\n">>
SystemTag == <<"<", "|", "s", "y", "s", "t", "e", "m", "|", ">">>
UserTag == <<"<", "|", "u", "s", "e", "r", "|", ">">>
AssistantTag == <<"<", "|", "a", "s", "s", "i", "s", "t", "a", "n", "t", "|", ">">>

(***************************************************************************)
(* The records of argilla/distilabel-intel-orca-dpo-pairs that the         *)
(* notebook reads: the three columns of the filter and the four text       *)
(* columns of format_prompt.                                               *)
(***************************************************************************)
Statuses == {"tie", "unchanged", "swapped"}
Scores == {7, 8, 9}

BaseText == <<"a">>

\* Records that vary in the filter's columns.
FlagRecords ==
    [status : Statuses, chosen_score : Scores, in_gsm8k_train : BOOLEAN,
     system : {BaseText}, input : {BaseText},
     chosen : {BaseText}, rejected : {BaseText}]

\* Records that vary in the text columns.
TextRecords ==
    [status : {"unchanged"}, chosen_score : {8}, in_gsm8k_train : {FALSE},
     system : Texts, input : Texts, chosen : Texts, rejected : Texts]

\* The train splits load_dataset may return.
TrainSplits(n) == SeqsUpTo(FlagRecords, n) \cup [1..1 -> TextRecords]

\* The train splits of the runs that follow both notebooks to their end.
NotebookSplits == SeqsUpTo(FlagRecords, MaxNotebookRecords)

(***************************************************************************)
(* DPO notebook: format_prompt.                                            *)
(***************************************************************************)
\* format_prompt with the two answers exchanged.
format_prompt_swapped(example) ==
    LET system == SystemTag \o NL \o example.system \o EOS \o NL
        prompt == UserTag \o NL \o example.input \o <<" ">> \o EOS \o NL
                      \o AssistantTag \o NL
        chosen == example.chosen \o EOS \o NL
        rejected == example.rejected \o EOS \o NL
    IN  [prompt |-> system \o prompt, chosen |-> rejected, rejected |-> chosen]

format_prompt(example) ==
    LET system == SystemTag \o NL \o example.system \o EOS \o NL
        prompt == UserTag \o NL \o example.input \o <<" ">> \o EOS \o NL
                      \o AssistantTag \o NL
        chosen == example.chosen \o EOS \o NL
        rejected == example.rejected \o EOS \o NL
    IN  [prompt |-> system \o prompt, chosen |-> chosen, rejected |-> rejected]

(***************************************************************************)
(* IT notebook: format_prompt applies the tokenizer's chat template to the *)
(* messages of an example.  The template renders every turn as             *)
(* "<|role|>\n" + content + "</s>\n" (the printed example of the notebook).*)
(***************************************************************************)
RoleTag(role) ==
    CASE role = "system" -> SystemTag
      [] role = "user" -> UserTag
      [] role = "assistant" -> AssistantTag

RECURSIVE apply_chat_template(_)
apply_chat_template(chat) ==
    IF chat = <<>> THEN <<>>
    ELSE RoleTag(Head(chat).role) \o NL \o Head(chat).content \o EOS \o NL
             \o apply_chat_template(Tail(chat))

it_format_prompt(example) == [text |-> apply_chat_template(example.messages)]

(***************************************************************************)
(* DPO notebook: the predicate of dpo_dataset.filter, and the two dataset  *)
(* operations.  filter keeps the rows the predicate accepts, in order;     *)
(* map replaces every row by the function's result (remove_columns drops   *)
(* the original columns).                                                  *)
(***************************************************************************)
\* The predicate with > in place of >=.
FilterPredicateStrict(r) ==
    r.status # "tie" /\ r.chosen_score > 8 /\ ~r.in_gsm8k_train

FilterPredicate(r) ==
    r.status # "tie" /\ r.chosen_score >= 8 /\ ~r.in_gsm8k_train

DatasetFilter(ds) == SelectSeq(ds, FilterPredicate)

DatasetMap(ds) == [i \in 1..Len(ds) |-> format_prompt(ds[i])]

(***************************************************************************)
(* The statements of the DPO notebook's dataset cell.                      *)
(***************************************************************************)
DataInit ==
    /\ dstage = "none"
    /\ loaded = <<>>
    /\ kept = <<>>
    /\ dpo_dataset = <<>>

LoadDataset(splits) ==
    /\ dstage = "none"
    /\ \E ds \in splits :
          /\ loaded' = ds
          /\ dpo_dataset' = ds
    /\ dstage' = "loaded"
    /\ UNCHANGED kept

FilterDataset ==
    /\ dstage = "loaded"
    /\ dpo_dataset' = DatasetFilter(dpo_dataset)
    /\ kept' = dpo_dataset'
    /\ dstage' = "filtered"
    /\ UNCHANGED loaded

MapDataset ==
    /\ dstage = "filtered"
    /\ dpo_dataset' = DatasetMap(dpo_dataset)
    /\ dstage' = "mapped"
    /\ UNCHANGED <<loaded, kept>>


(***************************************************************************)
(* The two notebooks.  Each code cell is one action; the cells of a        *)
(* notebook run once each from top to bottom, the two notebooks in any     *)
(* interleaving (each has a kernel of its own; they share the disk).       *)
(***************************************************************************)
IT == "IT"
DPO == "DPO"
Notebooks == {IT, DPO}

ItLastCell == 12
DpoLastCell == 11
LastCell(nb) == IF nb = IT THEN ItLastCell ELSE DpoLastCell

\* Hub names and local directories.
ItModelName == "TinyLlama/TinyLlama-1.1B-intermediate-step-1431k-3T"
ChatModelName == "TinyLlama/TinyLlama-1.1B-Chat-v1.0"
QLORA_MODEL == "TinyLlama-1.1B-qlora"
OUTPUT_DIR == "./results"
output_dir == "./dpo-tinyllama"
merged_dir == "./dpo-tinyllama-merged"
\* The directory of the inference cell, were it the adapter's output_dir.
model_dir_of_adapter == "./dpo-tinyllama"
model_dir == "./dpo-tinyllama-merged"
\* The literal the merge cell of the IT notebook passes to from_pretrained.
ItAdapterDir == "TinyLlama-1.1B-qlora"
Dirs == {QLORA_MODEL, OUTPUT_DIR, output_dir, merged_dir}

\* A model object: the hub model its dense weights come from, the precision
\* it was loaded in, the LoRA adapter attached (empty: none; <<"init">>: as
\* get_peft_model initialises it; each training run appends its name) and
\* the adapters merged into the dense weights so far.
NoModel == [base |-> "none", precision |-> "none", adapter |-> <<>>, merged |-> <<>>]

LoadedModel(name, precision) ==
    [base |-> name, precision |-> precision, adapter |-> <<>>, merged |-> <<>>]

\* get_peft_model: a freshly initialised adapter is attached.
get_peft_model(m) == [m EXCEPT !.adapter = <<"init">>]

\* Trainer.train: the attached adapter is what is trained.
Trained(m, run) == [m EXCEPT !.adapter = Append(@, run)]

\* A merge that folds the adapter into the dense weights and leaves it attached.
merge_keeping_adapter(m) == [m EXCEPT !.merged = Append(@, m.adapter)]

\* merge_and_unload: the adapter is folded into the dense weights and removed.
merge_and_unload(m) ==
    IF m.adapter = <<>> THEN m
    ELSE [m EXCEPT !.merged = Append(@, m.adapter), !.adapter = <<>>]

ObjIds == {"it_train", "it_reload", "dpo_train", "dpo_infer"}
ModelNames == {"model", "merged_model", "trainer.model", "finetuned_model"}

NoTokenizer == [source |-> "none", pad_token |-> "none", padding_side |-> "none"]

\* AutoTokenizer.from_pretrained followed by the two assignments.
PaddedTokenizer(source) ==
    [source |-> source, pad_token |-> "<PAD>", padding_side |-> "left"]

LoadedTokenizer(t, dir) == [t EXCEPT !.source = dir]

\* A local directory: the adapter files, the hub model the adapter belongs
\* to, the full model weights and the tokenizer files it holds.
EmptyDir ==
    [adapter |-> <<>>, adapter_base |-> "none", weights |-> NoModel,
     tokenizer |-> NoTokenizer]

NoValue == [unset |-> TRUE]
NoGeneration == [model |-> NoModel, tokenizer |-> NoTokenizer]

(***************************************************************************)
(* The configuration objects.  lora_dropout is in hundredths and           *)
(* learning_rate in millionths; warmup_ratio is a fraction.                *)
(***************************************************************************)
TargetModules ==
    <<"k_proj", "gate_proj", "v_proj", "up_proj", "q_proj", "o_proj", "down_proj">>

ItLoraConfig ==
    [lora_alpha |-> 32, lora_dropout |-> 10, r |-> 64, bias |-> "none",
     task_type |-> "CAUSAL_LM", target_modules |-> TargetModules]

DpoLoraConfig ==
    [lora_alpha |-> 32, lora_dropout |-> 5, r |-> 64, bias |-> "none",
     task_type |-> "CAUSAL_LM", target_modules |-> TargetModules]

ItTrainingArguments ==
    [output_dir |-> OUTPUT_DIR,
     per_device_train_batch_size |-> 2,
     gradient_accumulation_steps |-> 4,
     optim |-> "paged_adamw_32bit",
     learning_rate |-> 200,
     lr_scheduler_type |-> "cosine",
     num_train_epochs |-> 1,
     logging_steps |-> 10,
     fp16 |-> TRUE,
     gradient_checkpointing |-> TRUE]

DpoTrainingArguments ==
    [output_dir |-> output_dir,
     per_device_train_batch_size |-> 2,
     gradient_accumulation_steps |-> 4,
     optim |-> "paged_adamw_32bit",
     learning_rate |-> 10,
     lr_scheduler_type |-> "cosine",
     max_steps |-> 200,
     logging_steps |-> 10,
     fp16 |-> TRUE,
     gradient_checkpointing |-> TRUE,
     warmup_ratio |-> [num |-> 1, den |-> 10],
     beta |-> [num |-> 1, den |-> 10],
     label_smoothing |-> 0,
     loss_type |-> "sigmoid"]

(***************************************************************************)
(* IT notebook: the conversations of the selected test_sft rows.           *)
(***************************************************************************)
Msg(role, content) == [role |-> role, content |-> content]

ItExamples ==
    { [messages |-> <<Msg("user", <<"a">>), Msg("assistant", <<" ">>)>>],
      [messages |-> <<Msg("user", <<"a">>), Msg("assistant", <<"a">>),
                      Msg("user", <<" ">>), Msg("assistant", <<"a">>)>>] }

\* load_dataset(...).shuffle(seed=42).select(range(3_000)): some rows of the
\* split, in some order.
ItSelections == UNION {[1..k -> ItExamples] : k \in 1..MaxItRecords}

\* dataset.map(format_prompt): every row gains the column "text".
ItDatasetMap(ds) ==
    [i \in 1..Len(ds) |->
        [messages |-> ds[i].messages, text |-> it_format_prompt(ds[i]).text]]

(***************************************************************************)
(* The names a cell reads from the kernel and the names it binds.          *)
(***************************************************************************)
Reads(nb, k) ==
    IF nb = IT THEN
        CASE k = 1 -> {}
          [] k = 2 -> {"AutoTokenizer"}
          [] k = 3 -> {"load_dataset", "format_prompt", "template_tokenizer"}
          [] k = 4 -> {"dataset"}
          [] k = 5 -> {"BitsAndBytesConfig"}
          [] k = 6 -> {"AutoModelForCausalLM", "model_name", "bnb_config"}
          [] k = 7 -> {"AutoTokenizer", "model_name"}
          [] k = 8 -> {"LoraConfig", "prepare_model_for_kbit_training",
                       "get_peft_model", "model"}
          [] k = 9 -> {"TrainingArguments"}
          [] k = 10 -> {"SFTTrainer", "model", "dataset", "tokenizer",
                        "training_arguments", "peft_config"}
          [] k = 11 -> {"AutoPeftModelForCausalLM"}
          [] k = 12 -> {"pipeline", "merged_model", "tokenizer"}
    ELSE
        CASE k = 1 -> {}
          [] k = 2 -> {}
          [] k = 3 -> {"model"}
          [] k = 4 -> {}
          [] k = 5 -> {"model", "training_arguments", "dpo_dataset",
                       "tokenizer", "peft_config"}
          [] k = 6 -> {"dpo_trainer"}
          [] k = 7 -> {"dpo_trainer"}
          [] k = 8 -> {"dpo_trainer", "output_dir", "model"}
          [] k = 9 -> {}
          [] k = 10 -> {"merged_model", "tokenizer"}
          [] k = 11 -> {}

Binds(nb, k) ==
    IF nb = IT THEN
        CASE k = 1 -> {"torch", "AutoTokenizer", "AutoModelForCausalLM",
                       "BitsAndBytesConfig", "TrainingArguments", "pipeline",
                       "load_dataset", "AutoPeftModelForCausalLM", "LoraConfig",
                       "prepare_model_for_kbit_training", "get_peft_model",
                       "SFTTrainer"}
          [] k = 2 -> {"template_tokenizer", "format_prompt"}
          [] k = 3 -> {"dataset"}
          [] k = 4 -> {}
          [] k = 5 -> {"model_name", "bnb_config"}
          [] k = 6 -> {"model"}
          [] k = 7 -> {"tokenizer"}
          [] k = 8 -> {"peft_config", "model"}
          [] k = 9 -> {"OUTPUT_DIR", "training_arguments"}
          [] k = 10 -> {"trainer", "QLORA_MODEL"}
          [] k = 11 -> {"model", "merged_model"}
          [] k = 12 -> {"prompt", "pipe"}
    ELSE
        CASE k = 1 -> {"load_dataset", "format_prompt", "dpo_dataset"}
          [] k = 2 -> {"BitsAndBytesConfig", "AutoTokenizer",
                       "AutoModelForCausalLM", "pipeline", "bnb_config",
                       "model_name", "tokenizer", "model"}
          [] k = 3 -> {"LoraConfig", "prepare_model_for_kbit_training",
                       "get_peft_model", "peft_config", "model"}
          [] k = 4 -> {"DPOConfig", "output_dir", "training_arguments"}
          [] k = 5 -> {"DPOTrainer", "dpo_trainer"}
          [] k = 6 -> {}
          [] k = 7 -> {"pd", "plt", "log", "log_t"}
          [] k = 8 -> {"merged_model"}
          [] k = 9 -> {}
          [] k = 10 -> {"merged_dir"}
          [] k = 11 -> {"AutoTokenizer", "AutoModelForCausalLM", "pipeline",
                        "model_dir", "finetuned_model", "finetuned_tokenizer",
                        "pipe", "prompt"}

(***************************************************************************)
(* Running a cell.  A cell that reads a name the kernel has not bound      *)
(* raises NameError and changes nothing; otherwise it has its effect.      *)
(* After a cell that raised, the run either stops there (Run All) or goes  *)
(* on with the next cell (the cells run one by one).                       *)
(***************************************************************************)
valVars == <<obj, ref, peft_config, training_arguments, tokenizer, it_dataset,
             fs, calls, generated>>

\* The cell that follows cell k: skipping the cell that trains.
NextCellSkippingTrain(nb, k) ==
    IF (nb = IT /\ k = 9) \/ (nb = DPO /\ k = 5) THEN k + 2 ELSE k + 1

\* The cell that follows cell k.
NextCell(nb, k) == k + 1

At(nb, k) == pc[nb] = k /\ ~aborted[nb]

CanRun(nb, k) == Reads(nb, k) \subseteq bound[nb]

\* A cell that runs and leaves the kernel's names as they were.
FinishForgettingNames(nb, k, e) ==
    /\ pc' = [pc EXCEPT ![nb] = NextCell(nb, k)]
    /\ bound' = bound
    /\ err' = [err EXCEPT ![nb] = e]
    /\ UNCHANGED <<aborted, trainVars>>

Finish(nb, k, e) ==
    /\ pc' = [pc EXCEPT ![nb] = NextCell(nb, k)]
    /\ bound' = [bound EXCEPT ![nb] = @ \cup Binds(nb, k)]
    /\ err' = [err EXCEPT ![nb] = e]
    /\ UNCHANGED <<aborted, trainVars>>

NameError(nb, k) ==
    /\ pc' = [pc EXCEPT ![nb] = NextCell(nb, k)]
    /\ err' = [err EXCEPT ![nb] = "NameError"]
    /\ UNCHANGED <<aborted, bound, valVars, dataVars, trainVars>>

Called(nb, names) == calls' = [calls EXCEPT ![nb] = @ \o names]

RunAllAbort(nb) ==
    /\ ~aborted[nb]
    /\ err[nb] # "none"
    /\ aborted' = [aborted EXCEPT ![nb] = TRUE]
    /\ UNCHANGED <<pc, err, bound, valVars, dataVars, trainVars>>

NotebookInit ==
    /\ pc = [nb \in Notebooks |-> 1]
    /\ aborted = [nb \in Notebooks |-> FALSE]
    /\ err = [nb \in Notebooks |-> "none"]
    /\ bound = [nb \in Notebooks |-> {}]
    /\ obj = [o \in ObjIds |-> NoModel]
    /\ ref = [nb \in Notebooks |-> [n \in ModelNames |-> "none"]]
    /\ peft_config = [nb \in Notebooks |-> NoValue]
    /\ training_arguments = [nb \in Notebooks |-> NoValue]
    /\ tokenizer = [nb \in Notebooks |-> NoTokenizer]
    /\ it_dataset = <<>>
    /\ fs = [d \in Dirs |-> EmptyDir]
    /\ calls = [nb \in Notebooks |-> <<>>]
    /\ generated = [nb \in Notebooks |-> NoGeneration]

(***************************************************************************)
(* The code cells of the IT notebook.                                      *)
(***************************************************************************)
\* import torch, transformers, datasets, peft, trl names
ItImports ==
    /\ At(IT, 1)
    /\ Finish(IT, 1, "none")
    /\ UNCHANGED <<valVars, dataVars>>

\* template_tokenizer = AutoTokenizer.from_pretrained(...); def format_prompt
ItDefineFormat ==
    /\ At(IT, 2)
    /\ IF CanRun(IT, 2)
       THEN /\ Finish(IT, 2, "none")
            /\ UNCHANGED <<valVars, dataVars>>
       ELSE NameError(IT, 2)

\* dataset = load_dataset(...).shuffle(seed=42).select(range(3_000))
\* dataset = dataset.map(format_prompt)
ItLoadAndMap ==
    /\ At(IT, 3)
    /\ IF CanRun(IT, 3)
       THEN /\ \E ds \in ItSelections : it_dataset' = ItDatasetMap(ds)
            /\ Called(IT, <<"load_dataset", "map">>)
            /\ Finish(IT, 3, "none")
            /\ UNCHANGED <<obj, ref, peft_config, training_arguments, tokenizer,
                           fs, generated, dataVars>>
       ELSE NameError(IT, 3)

\* print(dataset["text"][2576])
ItPrintExample ==
    /\ At(IT, 4)
    /\ IF CanRun(IT, 4)
       THEN /\ Finish(IT, 4, "none")
            /\ UNCHANGED <<valVars, dataVars>>
       ELSE NameError(IT, 4)

\* model_name = ...; bnb_config = BitsAndBytesConfig(...)
ItQuantConfig ==
    /\ At(IT, 5)
    /\ IF CanRun(IT, 5)
       THEN /\ Called(IT, <<"BitsAndBytesConfig">>)
            /\ Finish(IT, 5, "none")
            /\ UNCHANGED <<obj, ref, peft_config, training_arguments, tokenizer,
                           it_dataset, fs, generated, dataVars>>
       ELSE NameError(IT, 5)

\* model = AutoModelForCausalLM.from_pretrained(model_name, quantization_config=...)
ItLoadModel ==
    /\ At(IT, 6)
    /\ IF CanRun(IT, 6)
       THEN /\ obj' = [obj EXCEPT !["it_train"] = LoadedModel(ItModelName, "4bit")]
            /\ ref' = [ref EXCEPT ![IT]["model"] = "it_train"]
            /\ Called(IT, <<"from_pretrained">>)
            /\ Finish(IT, 6, "none")
            /\ UNCHANGED <<peft_config, training_arguments, tokenizer,
                           it_dataset, fs, generated, dataVars>>
       ELSE NameError(IT, 6)

\* tokenizer = AutoTokenizer.from_pretrained(model_name); pad_token; padding_side
ItLoadTokenizer ==
    /\ At(IT, 7)
    /\ IF CanRun(IT, 7)
       THEN /\ tokenizer' = [tokenizer EXCEPT ![IT] = PaddedTokenizer(ItModelName)]
            /\ Finish(IT, 7, "none")
            /\ UNCHANGED <<obj, ref, peft_config, training_arguments,
                           it_dataset, fs, calls, generated, dataVars>>
       ELSE NameError(IT, 7)

\* peft_config = LoraConfig(...); model = prepare_model_for_kbit_training(model)
\* model = get_peft_model(model, peft_config)
ItLora ==
    /\ At(IT, 8)
    /\ IF CanRun(IT, 8)
       THEN /\ peft_config' = [peft_config EXCEPT ![IT] = ItLoraConfig]
            /\ obj' = [obj EXCEPT ![ref[IT]["model"]] = get_peft_model(@)]
            /\ Called(IT, <<"LoraConfig", "get_peft_model">>)
            /\ Finish(IT, 8, "none")
            /\ UNCHANGED <<ref, training_arguments, tokenizer, it_dataset, fs,
                           generated, dataVars>>
       ELSE NameError(IT, 8)

\* OUTPUT_DIR = "./results"; training_arguments = TrainingArguments(...)
ItTrainingArgs ==
    /\ At(IT, 9)
    /\ IF CanRun(IT, 9)
       THEN /\ training_arguments' =
                  [training_arguments EXCEPT ![IT] = ItTrainingArguments]
            /\ Called(IT, <<"TrainingArguments">>)
            /\ Finish(IT, 9, "none")
            /\ UNCHANGED <<obj, ref, peft_config, tokenizer, it_dataset, fs,
                           generated, dataVars>>
       ELSE NameError(IT, 9)

\* trainer = SFTTrainer(model=model, ..., peft_config=peft_config)
\* trainer.train()
\* QLORA_MODEL = "TinyLlama-1.1B-qlora"; trainer.model.save_pretrained(QLORA_MODEL)
ItTrainAndSave ==
    /\ At(IT, 10)
    /\ IF CanRun(IT, 10)
       THEN LET m == ref[IT]["model"]
                after == Trained(obj[m], "sft")
            IN  /\ obj' = [obj EXCEPT ![m] = after]
                /\ ref' = [ref EXCEPT ![IT]["trainer.model"] = m]
                /\ fs' = [fs EXCEPT ![QLORA_MODEL].adapter = after.adapter,
                                    ![QLORA_MODEL].adapter_base = after.base]
                /\ Called(IT, <<"SFTTrainer", "train", "save_pretrained">>)
                /\ Finish(IT, 10, "none")
                /\ UNCHANGED <<peft_config, training_arguments, tokenizer,
                               it_dataset, generated, dataVars>>
       ELSE NameError(IT, 10)

\* model = AutoPeftModelForCausalLM.from_pretrained("TinyLlama-1.1B-qlora", ...)
\* merged_model = model.merge_and_unload()
ItMerge ==
    /\ At(IT, 11)
    /\ IF CanRun(IT, 11)
       THEN IF fs[ItAdapterDir].adapter = <<>>
            THEN /\ Called(IT, <<"from_pretrained">>)
                 /\ pc' = [pc EXCEPT ![IT] = NextCell(IT, 11)]
                 /\ err' = [err EXCEPT ![IT] = "OSError"]
                 /\ UNCHANGED <<aborted, bound, obj, ref, peft_config,
                                training_arguments, tokenizer, it_dataset, fs,
                                generated, dataVars, trainVars>>
            ELSE LET m == [LoadedModel(fs[ItAdapterDir].adapter_base, "16bit")
                              EXCEPT !.adapter = fs[ItAdapterDir].adapter]
                 IN  /\ obj' = [obj EXCEPT !["it_reload"] = merge_and_unload(m)]
                     /\ ref' = [ref EXCEPT ![IT]["model"] = "it_reload",
                                           ![IT]["merged_model"] = "it_reload"]
                     /\ Called(IT, <<"from_pretrained", "merge_and_unload">>)
                     /\ Finish(IT, 11, "none")
                     /\ UNCHANGED <<peft_config, training_arguments, tokenizer,
                                    it_dataset, fs, generated, dataVars>>
       ELSE NameError(IT, 11)

\* pipe = pipeline(task="text-generation", model=merged_model, tokenizer=tokenizer)
\* print(pipe(prompt)[0]["generated_text"])
ItGenerate ==
    /\ At(IT, 12)
    /\ IF CanRun(IT, 12)
       THEN /\ generated' =
                  [generated EXCEPT ![IT] =
                      [model |-> obj[ref[IT]["merged_model"]],
                       tokenizer |-> tokenizer[IT]]]
            /\ Called(IT, <<"pipeline", "generate">>)
            /\ Finish(IT, 12, "none")
            /\ UNCHANGED <<obj, ref, peft_config, training_arguments, tokenizer,
                           it_dataset, fs, dataVars>>
       ELSE NameError(IT, 12)

(***************************************************************************)
(* The code cells of the DPO notebook.                                     *)
(***************************************************************************)
\* def format_prompt; dpo_dataset = load_dataset(...); .filter(...); .map(...)
DpoPrepareDataset ==
    /\ At(DPO, 1)
    /\ dstage = "none"
    /\ \E ds \in NotebookSplits :
          /\ loaded' = ds
          /\ kept' = DatasetFilter(ds)
          /\ dpo_dataset' = DatasetMap(DatasetFilter(ds))
    /\ dstage' = "mapped"
    /\ Called(DPO, <<"load_dataset", "filter", "map">>)
    /\ Finish(DPO, 1, "none")
    /\ UNCHANGED <<obj, ref, peft_config, training_arguments, tokenizer,
                   it_dataset, fs, generated>>

\* bnb_config = BitsAndBytesConfig(...); tokenizer = AutoTokenizer.from_pretrained(...)
\* model = AutoModelForCausalLM.from_pretrained(model_name, quantization_config=...)
DpoLoadModel ==
    /\ At(DPO, 2)
    /\ tokenizer' = [tokenizer EXCEPT ![DPO] = PaddedTokenizer(ChatModelName)]
    /\ obj' = [obj EXCEPT !["dpo_train"] = LoadedModel(ChatModelName, "4bit")]
    /\ ref' = [ref EXCEPT ![DPO]["model"] = "dpo_train"]
    /\ Called(DPO, <<"BitsAndBytesConfig", "from_pretrained">>)
    /\ Finish(DPO, 2, "none")
    /\ UNCHANGED <<peft_config, training_arguments, it_dataset, fs, generated,
                   dataVars>>

\* peft_config = LoraConfig(...); model = prepare_model_for_kbit_training(model)
\* model = get_peft_model(model, peft_config)
DpoLora ==
    /\ At(DPO, 3)
    /\ IF CanRun(DPO, 3)
       THEN /\ peft_config' = [peft_config EXCEPT ![DPO] = DpoLoraConfig]
            /\ obj' = [obj EXCEPT ![ref[DPO]["model"]] = get_peft_model(@)]
            /\ Called(DPO, <<"LoraConfig", "get_peft_model">>)
            /\ Finish(DPO, 3, "none")
            /\ UNCHANGED <<ref, training_arguments, tokenizer, it_dataset, fs,
                           generated, dataVars>>
       ELSE NameError(DPO, 3)

\* output_dir = "./dpo-tinyllama"; training_arguments = DPOConfig(...)
DpoTrainingArgs ==
    /\ At(DPO, 4)
    /\ training_arguments' =
          [training_arguments EXCEPT ![DPO] = DpoTrainingArguments]
    /\ Called(DPO, <<"DPOConfig">>)
    /\ Finish(DPO, 4, "none")
    /\ UNCHANGED <<obj, ref, peft_config, tokenizer, it_dataset, fs, generated,
                   dataVars>>

\* dpo_trainer = DPOTrainer(model, ref_model=None, args=training_arguments,
\*     train_dataset=dpo_dataset, tokenizer=tokenizer, peft_config=peft_config, ...)
\* Given a peft_config and a model that already is a PeftModel, the trainer
\* merges and unloads the attached adapter and attaches a fresh one (the
\* cell's recorded "Merge lora module to 4-bit linear" warning).
DpoBuildTrainer ==
    /\ At(DPO, 5)
    /\ IF CanRun(DPO, 5)
       THEN LET m == ref[DPO]["model"]
            IN  /\ obj' = [obj EXCEPT ![m] = get_peft_model(merge_and_unload(@))]
                /\ ref' = [ref EXCEPT ![DPO]["trainer.model"] = m]
                /\ Called(DPO, <<"DPOTrainer">>)
                /\ Finish(DPO, 5, "none")
                /\ UNCHANGED <<peft_config, training_arguments, tokenizer,
                               it_dataset, fs, generated, dataVars>>
       ELSE NameError(DPO, 5)

\* dpo_trainer.train(): the data loader's sampler refuses an empty dataset.
DpoTrain ==
    /\ At(DPO, 6)
    /\ IF CanRun(DPO, 6)
       THEN /\ Called(DPO, <<"train">>)
            /\ IF dpo_dataset = <<>>
               THEN /\ Finish(DPO, 6, "ValueError")
                    /\ UNCHANGED obj
               ELSE /\ Finish(DPO, 6, "none")
                    /\ obj' = [obj EXCEPT ![ref[DPO]["trainer.model"]] =
                                               Trained(@, "dpo")]
            /\ UNCHANGED <<ref, peft_config, training_arguments, tokenizer,
                           it_dataset, fs, generated, dataVars>>
       ELSE NameError(DPO, 6)

\* log = pd.DataFrame(dpo_trainer.state.log_history); log_t = log[log["loss"]...]
\* log_e = log[log["eval_loss"].notna()]: the trainer has no eval dataset, the
\* log has no column eval_loss, and the cell raises KeyError before it plots.
DpoPlotLosses ==
    /\ At(DPO, 7)
    /\ IF CanRun(DPO, 7)
       THEN /\ Finish(DPO, 7, "KeyError")
            /\ UNCHANGED <<valVars, dataVars>>
       ELSE NameError(DPO, 7)

\* dpo_trainer.save_model(output_dir); merged_model = model.merge_and_unload()
DpoSaveAndMerge ==
    /\ At(DPO, 8)
    /\ IF CanRun(DPO, 8)
       THEN LET t == obj[ref[DPO]["trainer.model"]]
                m == ref[DPO]["model"]
            IN  /\ fs' = [fs EXCEPT ![output_dir].adapter = t.adapter,
                                    ![output_dir].adapter_base = t.base,
                                    ![output_dir].tokenizer = tokenizer[DPO]]
                /\ obj' = [obj EXCEPT ![m] = merge_and_unload(@)]
                /\ ref' = [ref EXCEPT ![DPO]["merged_model"] = m]
                /\ Called(DPO, <<"save_model", "merge_and_unload">>)
                /\ Finish(DPO, 8, "none")
                /\ UNCHANGED <<peft_config, training_arguments, tokenizer,
                               it_dataset, generated, dataVars>>
       ELSE NameError(DPO, 8)

\* A cell holding one string literal (the PeftModel.from_pretrained variant,
\* quoted out): nothing runs.
DpoQuotedCell ==
    /\ At(DPO, 9)
    /\ Finish(DPO, 9, "none")
    /\ UNCHANGED <<valVars, dataVars>>

\* merged_dir = "./dpo-tinyllama-merged"
\* merged_model.save_pretrained(merged_dir); tokenizer.save_pretrained(merged_dir)
DpoSaveMerged ==
    /\ At(DPO, 10)
    /\ IF CanRun(DPO, 10)
       THEN /\ fs' = [fs EXCEPT ![merged_dir].weights =
                                     obj[ref[DPO]["merged_model"]],
                                ![merged_dir].tokenizer = tokenizer[DPO]]
            /\ Called(DPO, <<"save_pretrained">>)
            /\ Finish(DPO, 10, "none")
            /\ UNCHANGED <<obj, ref, peft_config, training_arguments, tokenizer,
                           it_dataset, generated, dataVars>>
       ELSE NameError(DPO, 10)

\* finetuned_model = AutoModelForCausalLM.from_pretrained(model_dir, ...)
\* finetuned_tokenizer = AutoTokenizer.from_pretrained(model_dir, ...)
\* pipe = pipeline("text-generation", model=finetuned_model, ...); print(pipe(prompt)...)
DpoInference ==
    /\ At(DPO, 11)
    /\ IF fs[model_dir].weights = NoModel \/ fs[model_dir].tokenizer = NoTokenizer
       THEN /\ Called(DPO, <<"from_pretrained">>)
            /\ pc' = [pc EXCEPT ![DPO] = NextCell(DPO, 11)]
            /\ err' = [err EXCEPT ![DPO] = "OSError"]
            /\ UNCHANGED <<aborted, bound, obj, ref, peft_config,
                           training_arguments, tokenizer, it_dataset, fs,
                           generated, dataVars, trainVars>>
       ELSE /\ obj' = [obj EXCEPT !["dpo_infer"] = fs[model_dir].weights]
            /\ ref' = [ref EXCEPT ![DPO]["finetuned_model"] = "dpo_infer"]
            /\ generated' =
                  [generated EXCEPT ![DPO] =
                      [model |-> fs[model_dir].weights,
                       tokenizer |-> LoadedTokenizer(fs[model_dir].tokenizer,
                                                     model_dir)]]
            /\ Called(DPO, <<"from_pretrained", "pipeline", "generate">>)
            /\ Finish(DPO, 11, "none")
            /\ UNCHANGED <<peft_config, training_arguments, tokenizer,
                           it_dataset, fs, dataVars>>

(***************************************************************************)
(* dpo_trainer.train(): the training loop the call runs under the          *)
(* arguments of DpoTrainingArguments, one action per batch.  Learning      *)
(* rates are integers in units of 1e-14 (learning_rate is in millionths,   *)
(* the scheduler's factor in units of 1e-8).                               *)
(***************************************************************************)
Max(a, b) == IF a >= b THEN a ELSE b

MaxSteps == DpoTrainingArguments.max_steps
BatchSize == DpoTrainingArguments.per_device_train_batch_size
GradAccum == DpoTrainingArguments.gradient_accumulation_steps

\* len(train_dataloader): batches of BatchSize rows, the last one kept short
LenDataloader(n) == (n + BatchSize - 1) \div BatchSize

NumUpdateStepsPerEpoch(n) == Max(LenDataloader(n) \div GradAccum, 1)

\* with max_steps > 0, the epochs needed to reach max_steps
NumTrainEpochs(n) ==
    (MaxSteps \div NumUpdateStepsPerEpoch(n))
        + (IF MaxSteps % NumUpdateStepsPerEpoch(n) > 0 THEN 1 ELSE 0)

\* get_warmup_steps: ceil(max_steps * warmup_ratio)
WarmupSteps ==
    LET r == DpoTrainingArguments.warmup_ratio
    IN  (MaxSteps * r.num + r.den - 1) \div r.den

\* ---- fixed-point arithmetic, scale FP = 1e8, within 32-bit integers
FPHi == 10000
FP == FPHi * FPHi
Pi == 314159265

FMul(a, b) ==
    LET ah == a \div FPHi
        al == a % FPHi
        bh == b \div FPHi
        bl == b % FPHi
    IN  ah * bh + (ah * bl + al * bh) \div FPHi + (al * bl) \div FP

\* a * num / den for 0 <= num <= den
MulDiv(a, num, den) == (a \div den) * num + ((a % den) * num) \div den

\* cos x for 0 <= x <= pi/2, by its Taylor series
CosQ(x) ==
    LET x2 == FMul(x, x)
        t7 == FP - x2 \div 182
        t6 == FP - FMul(x2, t7) \div 132
        t5 == FP - FMul(x2, t6) \div 90
        t4 == FP - FMul(x2, t5) \div 56
        t3 == FP - FMul(x2, t4) \div 30
        t2 == FP - FMul(x2, t3) \div 12
    IN  FP - FMul(x2, t2) \div 2

\* cos(pi * num / den) for num >= 0, brought back to the first quarter turn
CosPi(num, den) ==
    LET r == num % (2 * den)
        m == IF r > den THEN 2 * den - r ELSE r
    IN  IF 2 * m <= den
        THEN CosQ(MulDiv(Pi, m, den))
        ELSE 0 - CosQ(MulDiv(Pi, den - m, den))

\* The same schedule without the warmup offset in the cosine's progress.
LrLambdaNoOffset(s) ==
    IF s < WarmupSteps
    THEN MulDiv(FP, s, Max(1, WarmupSteps))
    ELSE Max(0, (FP + CosPi(s, Max(1, MaxSteps))) \div 2)

\* get_cosine_schedule_with_warmup(num_warmup_steps, num_training_steps):
\* the factor on the configured rate after s scheduler steps
LrLambda(s) ==
    IF s < WarmupSteps
    THEN MulDiv(FP, s, Max(1, WarmupSteps))
    ELSE Max(0, (FP + CosPi(s - WarmupSteps,
                            Max(1, MaxSteps - WarmupSteps))) \div 2)

PeakLr == DpoTrainingArguments.learning_rate * FP

\* LambdaLR: the factor for every count of scheduler steps a run can show
LrSchedule == [s \in 0..(2 * MaxSteps) |-> LrLambda(s)]

\* base_lr * lr_lambda(last_epoch)
LrAt(s) == DpoTrainingArguments.learning_rate * LrSchedule[s]

\* the rate the optimizer holds now
LearningRate == LrAt(sched_steps)

\* DefaultFlowCallback.on_step_end, without the test on max_steps
ShouldTrainingStopNever(g) == FALSE

\* DefaultFlowCallback.on_step_end: stop once max_steps is reached
ShouldTrainingStop(g) == g >= MaxSteps

\* whether the batch just drawn ends an accumulation
IsUpdate(total, s, n) ==
    \/ total % GradAccum = 0
    \/ LenDataloader(n) <= GradAccum /\ s = LenDataloader(n)

TrainIdle ==
    /\ tpc = "idle"
    /\ n_train = 0
    /\ epoch = 0
    /\ step = 0
    /\ total_batched_samples = 0
    /\ global_step = 0
    /\ sched_steps = 0
    /\ last_lr = 0

TrainCalled ==
    /\ tpc = "called"
    /\ n_train \in 0..MaxTrainRecords
    /\ epoch = 0
    /\ step = 0
    /\ total_batched_samples = 0
    /\ global_step = 0
    /\ sched_steps = 0
    /\ last_lr = 0

\* train() builds the dataloader: a sampler over no rows raises ValueError
TrainBegin ==
    /\ tpc = "called"
    /\ tpc' = IF n_train = 0 THEN "raised" ELSE "epoch"
    /\ UNCHANGED <<n_train, epoch, step, total_batched_samples, global_step,
                   sched_steps, last_lr>>

\* for epoch in range(epochs_trained, num_train_epochs)
EpochBegin ==
    /\ tpc = "epoch"
    /\ IF epoch < NumTrainEpochs(n_train)
       THEN /\ tpc' = "batch"
            /\ step' = 0
       ELSE /\ tpc' = "done"
            /\ UNCHANGED step
    /\ UNCHANGED <<n_train, epoch, total_batched_samples, global_step,
                   sched_steps, last_lr>>

\* a batch inside an accumulation: training_step only
TrainAccumulate ==
    /\ tpc = "batch"
    /\ step < LenDataloader(n_train)
    /\ ~IsUpdate(total_batched_samples + 1, step + 1, n_train)
    /\ total_batched_samples' = total_batched_samples + 1
    /\ step' = step + 1
    /\ UNCHANGED <<tpc, n_train, epoch, global_step, sched_steps, last_lr>>

\* the batch that ends an accumulation: optimizer.step(), lr_scheduler.step(),
\* state.global_step += 1, then the callback's test on max_steps
OptimizerStep ==
    /\ tpc = "batch"
    /\ step < LenDataloader(n_train)
    /\ IsUpdate(total_batched_samples + 1, step + 1, n_train)
    /\ total_batched_samples' = total_batched_samples + 1
    /\ step' = step + 1
    /\ last_lr' = LearningRate
    /\ sched_steps' = sched_steps + 1
    /\ global_step' = global_step + 1
    /\ tpc' = IF ShouldTrainingStop(global_step') THEN "done" ELSE "batch"
    /\ UNCHANGED <<n_train, epoch>>

\* the same batch when the fp16 gradients overflowed: the scaler skips
\* optimizer.step() and the trainer then leaves lr_scheduler.step() out, while
\* state.global_step still advances
OptimizerStepSkipped ==
    /\ tpc = "batch"
    /\ DpoTrainingArguments.fp16
    /\ global_step - sched_steps < MaxSkipped
    /\ step < LenDataloader(n_train)
    /\ IsUpdate(total_batched_samples + 1, step + 1, n_train)
    /\ total_batched_samples' = total_batched_samples + 1
    /\ step' = step + 1
    /\ last_lr' = LearningRate
    /\ global_step' = global_step + 1
    /\ tpc' = IF ShouldTrainingStop(global_step') THEN "done" ELSE "batch"
    /\ UNCHANGED <<n_train, epoch, sched_steps>>

\* the dataloader is exhausted
EpochEnd ==
    /\ tpc = "batch"
    /\ step = LenDataloader(n_train)
    /\ epoch' = epoch + 1
    /\ tpc' = "epoch"
    /\ UNCHANGED <<n_train, step, total_batched_samples, global_step,
                   sched_steps, last_lr>>

vars == <<dataVars, nbVars, trainVars>>

(***************************************************************************)
(* The two notebooks, run cell by cell.                                    *)
(***************************************************************************)
Init == DataInit /\ NotebookInit /\ TrainIdle

Next ==
    \/ ItImports
    \/ ItDefineFormat
    \/ ItLoadAndMap
    \/ ItPrintExample
    \/ ItQuantConfig
    \/ ItLoadModel
    \/ ItLoadTokenizer
    \/ ItLora
    \/ ItTrainingArgs
    \/ ItTrainAndSave
    \/ ItMerge
    \/ ItGenerate
    \/ DpoPrepareDataset
    \/ DpoLoadModel
    \/ DpoLora
    \/ DpoTrainingArgs
    \/ DpoBuildTrainer
    \/ DpoTrain
    \/ DpoPlotLosses
    \/ DpoSaveAndMerge
    \/ DpoQuotedCell
    \/ DpoSaveMerged
    \/ DpoInference
    \/ \E nb \in Notebooks : RunAllAbort(nb)

Spec == Init /\ [][Next]_vars

(***************************************************************************)
(* The dataset cell of the DPO notebook alone, statement by statement,     *)
(* over the larger domain of train splits.                                 *)
(***************************************************************************)
NextData ==
    \/ LoadDataset(TrainSplits(MaxRecords)) /\ UNCHANGED <<nbVars, trainVars>>
    \/ FilterDataset /\ UNCHANGED <<nbVars, trainVars>>
    \/ MapDataset /\ UNCHANGED <<nbVars, trainVars>>

SpecData == Init /\ [][NextData]_vars

(***************************************************************************)
(* dpo_trainer.train() alone, batch by batch, over the sizes of the train  *)
(* dataset.  The loop is sequential code that keeps running, hence the     *)
(* weak fairness of its steps.                                             *)
(***************************************************************************)
InitTrain == DataInit /\ NotebookInit /\ TrainCalled

NextTrain ==
    \/ TrainBegin /\ UNCHANGED <<dataVars, nbVars>>
    \/ EpochBegin /\ UNCHANGED <<dataVars, nbVars>>
    \/ TrainAccumulate /\ UNCHANGED <<dataVars, nbVars>>
    \/ OptimizerStep /\ UNCHANGED <<dataVars, nbVars>>
    \/ OptimizerStepSkipped /\ UNCHANGED <<dataVars, nbVars>>
    \/ EpochEnd /\ UNCHANGED <<dataVars, nbVars>>

SpecTrain == InitTrain /\ [][NextTrain]_vars /\ WF_vars(NextTrain)

(***************************************************************************)
(* Claims about the dataset cell of the DPO notebook (under SpecData).     *)
(***************************************************************************)

\* The three conditions of the filter, as the claim words them.
MeetsAllThree(r) ==
    r.status # "tie" /\ r.chosen_score >= 8 /\ r.in_gsm8k_train = FALSE

\* C1: the dataset kept by the filter step is exactly the sub-sequence of the
\* loaded train split whose records meet all three conditions: an order
\* preserving embedding f of the kept rows into the loaded rows exists whose
\* range is exactly the rows meeting the conditions, and the result is never
\* longer than the input.
C1_FilterKeepsExactlyTheMatching ==
    dstage \in {"filtered", "mapped"} =>
        LET n == Len(loaded)
            m == Len(kept)
        IN  /\ m <= n
            /\ \E f \in [1..m -> 1..n] :
                  /\ \A i, j \in 1..m : i < j => f[i] < f[j]
                  /\ \A i \in 1..m : kept[i] = loaded[f[i]]
                  /\ \A k \in 1..n :
                        MeetsAllThree(loaded[k]) <=> (\E i \in 1..m : f[i] = k)

\* A split of three rows whose middle row is dropped and whose outer rows,
\* different from each other, are kept.
C1_Witness ==
    /\ dstage = "filtered"
    /\ Len(loaded) = 3
    /\ ~MeetsAllThree(loaded[2])
    /\ Len(dpo_dataset) = 2
    /\ dpo_dataset[1] # dpo_dataset[2]
    /\ dpo_dataset[1].chosen_score = 8

\* C2: for every example format_prompt returns
\*   prompt   = "<|system|>\n" + system + "</s>\n" + "<|user|>\n" + input
\*              + " </s>\n<|assistant|>\n",
\*   chosen   = chosen + "</s>\n",   rejected = rejected + "</s>\n",
\* and nothing else, the four input fields standing unmodified at their
\* places in the results.
C2_FormatPromptConcatenates ==
    dstage = "mapped" =>
        /\ Len(dpo_dataset) = Len(kept)
        /\ \A i \in 1..Len(kept) :
              LET ex == kept[i]
                  row == dpo_dataset[i]
                  s0 == Len(SystemTag) + 1
                  u0 == s0 + Len(ex.system) + Len(EOS) + 1 + Len(UserTag) + 1
              IN  /\ DOMAIN row = {"prompt", "chosen", "rejected"}
                  /\ row.prompt =
                        SystemTag \o <<"\n">> \o ex.system \o EOS \o <<"\n">>
                            \o UserTag \o <<"\n">> \o ex.input
                            \o <<" ">> \o EOS \o <<"\n">>
                            \o AssistantTag \o <<"\n">>
                  /\ row.chosen = ex.chosen \o EOS \o <<"\n">>
                  /\ row.rejected = ex.rejected \o EOS \o <<"\n">>
                  /\ SubSeq(row.prompt, s0 + 1, s0 + Len(ex.system)) = ex.system
                  /\ SubSeq(row.prompt, u0 + 1, u0 + Len(ex.input)) = ex.input
                  /\ SubSeq(row.chosen, 1, Len(ex.chosen)) = ex.chosen
                  /\ SubSeq(row.rejected, 1, Len(ex.rejected)) = ex.rejected

\* A mapped row whose four fields are pairwise distinguishable.
C2_Witness ==
    /\ dstage = "mapped"
    /\ Len(dpo_dataset) = 1
    /\ kept[1].system # kept[1].input
    /\ kept[1].chosen # kept[1].rejected
    /\ Len(kept[1].input) = MaxTextLen
    /\ Len(dpo_dataset[1].prompt) > Len(dpo_dataset[1].chosen)

\* C3: the prompt format_prompt builds is identical to what the TinyLlama
\* chat template produces for a system message followed by a user message
\* followed by the opening "<|assistant|>\n" tag.
C3_PromptIsChatTemplate ==
    dstage = "mapped" =>
        \A i \in 1..Len(kept) :
            dpo_dataset[i].prompt =
                apply_chat_template(
                    <<[role |-> "system", content |-> kept[i].system],
                      [role |-> "user", content |-> kept[i].input]>>)
                    \o AssistantTag \o NL

\* C5: every record that remains after the filter has chosen and rejected
\* answers shorter than a bound the filter enforces, that is a bound B that
\* excludes at least the longest answers the split can hold.
C5_FilterBoundsAnswerLength ==
    dstage \in {"filtered", "mapped"} =>
        \E B \in 0..MaxTextLen :
            \A i \in 1..Len(kept) :
                Len(kept[i].chosen) < B /\ Len(kept[i].rejected) < B

(***************************************************************************)
(* Claims about the two notebooks run cell by cell (under Spec).           *)
(***************************************************************************)

Has(c, x) == \E i \in 1..Len(c) : c[i] = x

\* Both calls were made, and the first x before the first y.
Before(c, x, y) ==
    \E i \in 1..Len(c) :
        /\ c[i] = x
        /\ \E j \in (i + 1)..Len(c) : c[j] = y
        /\ \A j \in 1..i : c[j] # y

\* C4: in each notebook the steps happen in the order load dataset -> map ->
\* construct configuration objects -> train() -> merge_and_unload() ->
\* pipeline(): whenever pipeline has been called, the calls of train() and
\* then of merge_and_unload() came before it, and the model it generates on
\* is one merge_and_unload() produced; whenever train() has been called, the
\* dataset had been loaded and mapped and the configuration objects
\* constructed before it.
C4_StepsInFixedOrder ==
    \A nb \in Notebooks :
        LET c == calls[nb]
        IN  /\ Has(c, "pipeline") =>
                  /\ Before(c, "train", "merge_and_unload")
                  /\ Before(c, "merge_and_unload", "pipeline")
            /\ Has(c, "train") =>
                  /\ Before(c, "load_dataset", "map")
                  /\ Before(c, "map", "LoraConfig")
                  /\ Before(c, "LoraConfig", "train")
                  /\ \/ Before(c, "TrainingArguments", "train")
                     \/ Before(c, "DPOConfig", "train")
                  /\ "peft_config" \in bound[nb]
                  /\ "training_arguments" \in bound[nb]
                  /\ peft_config[nb] # NoValue
                  /\ training_arguments[nb] # NoValue
            /\ generated[nb] # NoGeneration =>
                  /\ Has(c, "pipeline")
                  /\ generated[nb].model.merged # <<>>
                  /\ generated[nb].model.adapter = <<>>

\* Both notebooks have generated, each on a model whose trained adapter was
\* merged.
C4_Witness ==
    /\ generated[IT].model.merged = <<(<<"init", "sft">>)>>
    /\ generated[DPO].model.merged = <<(<<"init">>), (<<"init", "dpo">>)>>
    /\ pc[IT] = ItLastCell + 1
    /\ pc[DPO] = DpoLastCell + 1

Range(q) == {q[i] : i \in 1..Len(q)}

\* C8: the two LoraConfig objects agree on every field (lora_alpha,
\* lora_dropout, r, bias, task_type and the set of target_modules).
C8_SameLoraConfig ==
    ("peft_config" \in bound[IT] /\ "peft_config" \in bound[DPO]) =>
        /\ peft_config[DPO].lora_alpha = peft_config[IT].lora_alpha
        /\ peft_config[DPO].lora_dropout = peft_config[IT].lora_dropout
        /\ peft_config[DPO].r = peft_config[IT].r
        /\ peft_config[DPO].bias = peft_config[IT].bias
        /\ peft_config[DPO].task_type = peft_config[IT].task_type
        /\ Range(peft_config[DPO].target_modules)
               = Range(peft_config[IT].target_modules)

\* C9: every training argument present in both configurations has the same
\* value in both (the run length and the added warmup_ratio apart).
C9_SameSharedTrainingArguments ==
    ("training_arguments" \in bound[IT] /\ "training_arguments" \in bound[DPO]) =>
        LET a == training_arguments[IT]
            b == training_arguments[DPO]
        IN  /\ {"per_device_train_batch_size", "gradient_accumulation_steps",
                "optim", "learning_rate", "lr_scheduler_type", "logging_steps",
                "fp16", "gradient_checkpointing"}
                   \subseteq (DOMAIN a \cap DOMAIN b)
            /\ b.per_device_train_batch_size = a.per_device_train_batch_size
            /\ b.gradient_accumulation_steps = a.gradient_accumulation_steps
            /\ b.optim = a.optim
            /\ b.learning_rate = a.learning_rate
            /\ b.lr_scheduler_type = a.lr_scheduler_type
            /\ b.logging_steps = a.logging_steps
            /\ b.fp16 = a.fp16
            /\ b.gradient_checkpointing = a.gradient_checkpointing

\* C10: when DPO training starts (the trainer is built and train() is the
\* next cell) and the instruction-tuning run has saved its adapter to
\* TinyLlama-1.1B-qlora, the adapter attached to the DPO model is that saved
\* adapter, not a freshly initialised one.
C10_DpoStartsFromSavedAdapter ==
    (/\ pc[DPO] = 6
     /\ err[DPO] = "none"
     /\ fs[QLORA_MODEL].adapter # <<>>) =>
        /\ obj[ref[DPO]["trainer.model"]].adapter = fs[QLORA_MODEL].adapter
        /\ obj[ref[DPO]["trainer.model"]].adapter # <<"init">>

(***************************************************************************)
(* Claims about dpo_trainer.train() (SpecTrain).                           *)
(***************************************************************************)

\* C6, as stated: whatever the number of rows the filter leaves, the call of
\* train() ends with global_step equal to max_steps, 200.
C6_EndsAtMaxStepsForAnySize ==
    tpc \in {"done", "raised"} => global_step = MaxSteps

\* C6, amended: for every train dataset of at least one row, train() comes to
\* its end, and at its end global_step equals max_steps, 200, however many
\* epochs that takes and whichever steps the fp16 scaler skipped; over no rows
\* it raises before the first step.
C6_NonEmptyEndsAtMaxSteps ==
    /\ [](tpc = "done" => n_train > 0 /\ global_step = MaxSteps)
    /\ [](tpc = "raised" => n_train = 0 /\ global_step = 0)
    /\ (n_train > 0) ~> (tpc = "done")
    /\ (n_train = 0) ~> (tpc = "raised")

\* train() has ended at step 200 after several passes over a dataset too small
\* to fill 200 steps in one epoch.
C6_Witness ==
    /\ tpc = "done"
    /\ global_step = MaxSteps
    /\ n_train > BatchSize * GradAccum
    /\ epoch > 1

\* C7, as stated: counted in training steps, the learning rate does not fall
\* over steps 1..20, equals the configured rate at step 20, does not rise over
\* steps 20..200, and never exceeds the configured rate.
C7_ScheduleByTrainingStep ==
    /\ LearningRate <= PeakLr
    /\ global_step \in 1..WarmupSteps => LearningRate >= last_lr
    /\ global_step = WarmupSteps => LearningRate = PeakLr
    /\ global_step > WarmupSteps => LearningRate <= last_lr

\* C7, amended: counted in the steps the scheduler has taken (a step whose fp16
\* gradients overflowed is counted by global_step and not by the scheduler, and
\* leaves the rate where it was), the rate is zero before the first step, does
\* not fall over steps 1..20, equals the configured rate at step 20, does not
\* rise over steps 20..200, and never exceeds the configured rate; after a run
\* without a skipped step the two counts agree.
C7_ScheduleBySchedulerStep ==
    /\ LearningRate <= PeakLr
    /\ sched_steps <= global_step
    /\ sched_steps = 0 => LearningRate = 0
    /\ sched_steps \in 1..WarmupSteps => LearningRate >= LrAt(sched_steps - 1)
    /\ sched_steps = WarmupSteps => LearningRate = PeakLr
    /\ sched_steps > WarmupSteps => LearningRate <= LrAt(sched_steps - 1)
    /\ global_step >= 1 =>
          \/ last_lr = LearningRate
          \/ sched_steps >= 1 /\ last_lr = LrAt(sched_steps - 1)
    /\ global_step = MaxSteps /\ sched_steps = MaxSteps => LearningRate = 0

\* The recorded run: at step 40 the scheduler has taken 39 steps and the rate
\* is the logged 9.7276e-06.
C7_Witness ==
    /\ tpc = "batch"
    /\ global_step = 40
    /\ sched_steps = 39
    /\ LearningRate \in 972759200..972759400
    /\ last_lr > LearningRate

(***************************************************************************)
(* Claims about the directories and the names of the notebooks (Spec).     *)
(***************************************************************************)

\* C11: a notebook loads a local directory only after a cell of its own wrote
\* it.  DPO: before the inference cell runs, the save cell has written the
\* merged model and the tokenizer to ./dpo-tinyllama-merged, the inference
\* cell reads that same directory, and what it generates on is the model and
\* the tokenizer saved there.  IT: the directory the merge cell loads is the
\* one the training cell saved the adapter to, and the adapter merged is the
\* one saved.  No load ever finds its directory missing, and no directory is
\* written by the other notebook.
C11_DirectoriesSavedBeforeLoaded ==
    /\ model_dir = merged_dir
    /\ ItAdapterDir = QLORA_MODEL
    /\ \A nb \in Notebooks : err[nb] # "OSError"
    /\ pc[DPO] <= 10 => fs[merged_dir] = EmptyDir
    /\ pc[IT] <= 10 => fs[QLORA_MODEL] = EmptyDir
    /\ pc[DPO] > 11 =>
          /\ Before(calls[DPO], "save_pretrained", "pipeline")
          /\ fs[merged_dir].weights # NoModel
          /\ fs[merged_dir].tokenizer = tokenizer[DPO]
          /\ fs[merged_dir].weights = obj[ref[DPO]["merged_model"]]
          /\ generated[DPO].model = fs[merged_dir].weights
          /\ generated[DPO].tokenizer
                 = LoadedTokenizer(fs[merged_dir].tokenizer, merged_dir)
    /\ pc[IT] > 11 =>
          /\ Before(calls[IT], "save_pretrained", "merge_and_unload")
          /\ fs[QLORA_MODEL].adapter # <<>>
          /\ fs[QLORA_MODEL].adapter = obj[ref[IT]["trainer.model"]].adapter
          /\ fs[QLORA_MODEL].adapter_base = obj[ref[IT]["trainer.model"]].base
          /\ obj[ref[IT]["merged_model"]].merged = <<fs[QLORA_MODEL].adapter>>
          /\ obj[ref[IT]["merged_model"]].base = fs[QLORA_MODEL].adapter_base

\* Both notebooks have run their loading cells: the IT notebook has merged the
\* adapter it reloaded, the DPO notebook has generated on the reloaded model.
C11_Witness ==
    /\ pc[IT] > 11
    /\ pc[DPO] > 11
    /\ obj[ref[IT]["merged_model"]].merged = <<(<<"init", "sft">>)>>
    /\ generated[DPO].tokenizer.source = merged_dir
    /\ generated[DPO].model.base = ChatModelName

\* C12: once the training-and-save cell of the IT notebook has run, the folder
\* TinyLlama-1.1B-qlora holds the tokenizer's files (those of the notebook's
\* tokenizer) as well as the trained weights.
C12_TokenizerSavedWithModel ==
    pc[IT] > 10 =>
        /\ fs[QLORA_MODEL].adapter # <<>>
        /\ fs[QLORA_MODEL].tokenizer # NoTokenizer
        /\ fs[QLORA_MODEL].tokenizer = tokenizer[IT]

\* C13: the model merge_and_unload() returns is standalone.  Whenever a
\* notebook has bound merged_model, that model carries no LoRA adapter and its
\* dense weights include, as the latest thing merged, the trained adapter (the
\* one the notebook saved); what the DPO notebook saves to
\* ./dpo-tinyllama-merged is full weights with no adapter files beside them,
\* and the plain causal-LM loader gets back from there the very model that
\* was merged, which is what generation runs on.
C13_MergedModelIsStandalone ==
    /\ \A nb \in Notebooks :
          "merged_model" \in bound[nb] =>
              LET m == obj[ref[nb]["merged_model"]]
                  saved == IF nb = IT THEN fs[QLORA_MODEL] ELSE fs[output_dir]
              IN  /\ m # NoModel
                  /\ m.adapter = <<>>
                  /\ m.merged # <<>>
                  /\ m.merged[Len(m.merged)] = saved.adapter
                  /\ m.base = saved.adapter_base
    /\ fs[merged_dir].weights # NoModel =>
          /\ fs[merged_dir].adapter = <<>>
          /\ fs[merged_dir].weights.adapter = <<>>
          /\ fs[merged_dir].weights = obj[ref[DPO]["merged_model"]]
    /\ generated[DPO] # NoGeneration =>
          /\ obj[ref[DPO]["finetuned_model"]] = obj[ref[DPO]["merged_model"]]
          /\ generated[DPO].model = obj[ref[DPO]["finetuned_model"]]

\* The DPO notebook has reloaded its merged model with the plain loader, and
\* the IT notebook holds its merged model.
C13_Witness ==
    /\ "merged_model" \in bound[IT]
    /\ ref[DPO]["finetuned_model"] = "dpo_infer"
    /\ obj["dpo_infer"].adapter = <<>>
    /\ obj["dpo_infer"].merged = <<(<<"init">>), (<<"init", "dpo">>)>>
    /\ fs[merged_dir].adapter = <<>>
    /\ fs[output_dir].adapter = <<"init", "dpo">>

\* C14: with the cells of a notebook run once each from top to bottom, no cell
\* raises NameError: every name the next cell reads is bound by then; and each
\* bound name holds what the latest assignment above gave it (peft_config and
\* training_arguments the notebook's own configuration, tokenizer the padded
\* tokenizer of the notebook's model_name, model the object of the latest
\* assignment to model, merged_model the model merge_and_unload() returned,
\* dataset the mapped rows), so that generation in the IT notebook runs on
\* that merged_model and that tokenizer.
C14_NamesBoundBeforeRead ==
    \A nb \in Notebooks :
        /\ err[nb] # "NameError"
        /\ pc[nb] <= LastCell(nb) => Reads(nb, pc[nb]) \subseteq bound[nb]
        /\ \A k \in 1..(pc[nb] - 1) :
              (k # pc[nb] - 1 \/ err[nb] \notin {"ValueError", "OSError"})
                  => Binds(nb, k) \subseteq bound[nb]
        /\ "peft_config" \in bound[nb] =>
              peft_config[nb] = (IF nb = IT THEN ItLoraConfig ELSE DpoLoraConfig)
        /\ "training_arguments" \in bound[nb] =>
              training_arguments[nb]
                  = (IF nb = IT THEN ItTrainingArguments ELSE DpoTrainingArguments)
        /\ "tokenizer" \in bound[nb] =>
              tokenizer[nb]
                  = PaddedTokenizer(IF nb = IT THEN ItModelName ELSE ChatModelName)
        /\ "model" \in bound[nb] =>
              ref[nb]["model"]
                  = (IF nb = DPO THEN "dpo_train"
                     ELSE IF "merged_model" \in bound[nb] THEN "it_reload"
                     ELSE "it_train")
        /\ "merged_model" \in bound[nb] =>
              /\ ref[nb]["merged_model"] = ref[nb]["model"]
              /\ Has(calls[nb], "merge_and_unload")
        /\ ("dataset" \in bound[nb] /\ nb = IT) =>
              /\ it_dataset # <<>>
              /\ \A i \in 1..Len(it_dataset) :
                    it_dataset[i].text = apply_chat_template(it_dataset[i].messages)
        /\ ("dpo_dataset" \in bound[nb] /\ nb = DPO) =>
              dpo_dataset = DatasetMap(DatasetFilter(loaded))
        /\ ("pipe" \in bound[nb] /\ nb = IT) =>
              /\ generated[nb].model = obj[ref[nb]["merged_model"]]
              /\ generated[nb].tokenizer = tokenizer[nb]

\* Both notebooks have run every cell, the plot cell of the DPO notebook
\* having raised on the missing column, and all their names are bound.
C14_Witness ==
    /\ pc[IT] = ItLastCell + 1
    /\ pc[DPO] = DpoLastCell + 1
    /\ {"pipe", "prompt", "merged_model"} \subseteq bound[IT]
    /\ {"pipe", "log_t", "finetuned_tokenizer"} \subseteq bound[DPO]
    /\ \A nb \in Notebooks : ~aborted[nb] /\ err[nb] = "none"

====
